---------------------------- MODULE Spec2Model ----------------------------
(***************************************************************************)
(* A model of MemoryWatch's analyzer (src/analyze.py): the time-windowed   *)
(* analysis of process samples, swap snapshots and alerts over two         *)
(* backends (the SQLite database and the legacy flat files), and the       *)
(* report assembler built on them.                                         *)
(*                                                                         *)
(* Time is counted in whole hours.  Resident memory and swap are whole     *)
(* megabytes.  A text cell of a CSV file is a tagged value: the tag says   *)
(* what the text parses as ("ts": the fixed date-time format, "num": a     *)
(* number, "txt": neither), and None is Python's None.                     *)
(***************************************************************************)
EXTENDS Integers, Sequences, FiniteSets, TLC

VARIABLES
    now,              \* datetime.now(), in hours
    dbExists,         \* DB_FILE.exists()
    tables,           \* the tables the database holds
    metadataColumn,   \* whether alerts has a metadata column
    snapshots,        \* table snapshots, in rowid order
    process_samples,  \* table process_samples, in rowid order
    alerts,           \* table alerts, in rowid order
    memFile,          \* CSV_FILE.exists()
    memHeader,        \* header row of memory_log.csv
    memRows,          \* data rows of memory_log.csv, in file order
    swapFile,         \* SWAP_FILE.exists()
    swapHeader,       \* header row of swap_history.csv
    swapRows,         \* data rows of swap_history.csv, in file order
    leaksFile,        \* LEAKS_FILE.exists()
    leakLines,        \* lines of memory_leaks.log, in file order
    prefs,            \* notification_preferences.json
    fs,               \* the resolved paths that exist in the filesystem
    out,              \* the last analyzer call: operation, arguments, outcome
    pc,               \* generate_report's position, argument and pending exception
    conn,             \* generate_report's conn: an index of sessions, 0 for None
    sessions,         \* the sqlite3 connections opened during generate_report
    report            \* generate_report's buffer, one entry per section

vars == << now, dbExists, tables, metadataColumn, snapshots, process_samples,
           alerts, memFile, memHeader, memRows, swapFile, swapHeader, swapRows,
           leaksFile, leakLines, prefs, fs, out, pc, conn, sessions, report >>

----------------------------------------------------------------------------
(* Bounds of the model. *)

\* The clock reading at which the analysis runs.
NowT == 200
\* Most data rows the sampler has written to a flat file.
MaxRows == 4
\* Most rows the sampler has written to process_samples.
MaxSamples == 4
\* Most rows the sampler has written to snapshots.
MaxSnapshots == 3

(* Program constants. *)

\* analyze_memory_trends, analyze_swap_usage, generate_report: hours = 24
DEFAULT_HOURS == 24

----------------------------------------------------------------------------
(* Values *)

None == [k |-> "none", v |-> 0]
TsCell(t) == [k |-> "ts", v |-> t]
NumCell(n) == [k |-> "num", v |-> n]
TxtCell(n) == [k |-> "txt", v |-> n]

Range(s) == { s[i] : i \in 1..Len(s) }

Max2(a, b) == IF a >= b THEN a ELSE b

SetMax(S) == CHOOSE x \in S : \A y \in S : y <= x

SetMin(S) == CHOOSE x \in S : \A y \in S : x <= y

RECURSIVE SeqSum(_)
SeqSum(s) == IF s = << >> THEN 0 ELSE s[1] + SeqSum(Tail(s))

\* sorted(s, key=...) on entries [key, val]: ascending, equal keys keep
\* their order (Python's sort is stable).
RECURSIVE SortedAsc(_)
SortedAsc(s) ==
    IF s = << >> THEN << >>
    ELSE LET m == SetMin({ s[i].key : i \in 1..Len(s) })
         IN  SelectSeq(s, LAMBDA e : e.key = m)
               \o SortedAsc(SelectSeq(s, LAMBDA e : e.key # m))

\* sorted(s, key=..., reverse=True): descending, equal keys keep their order.
RECURSIVE SortedDesc(_)
SortedDesc(s) ==
    IF s = << >> THEN << >>
    ELSE LET m == SetMax({ s[i].key : i \in 1..Len(s) })
         IN  SelectSeq(s, LAMBDA e : e.key = m)
               \o SortedDesc(SelectSeq(s, LAMBDA e : e.key # m))

Vals(s) == [ i \in 1..Len(s) |-> s[i].val ]

----------------------------------------------------------------------------
(* The flat files: csv.DictReader *)

MEM_HEADER == << "timestamp", "pid", "rss_mb", "command" >>
SWAP_HEADER == << "timestamp", "swap_used_mb", "swap_total_mb", "free_pct" >>

\* row[name] raises KeyError when the header has no such column.
HasCol(header, name) == \E i \in 1..Len(header) : header[i] = name

\* row[name]: the cell under the column, None (DictReader's restval) when the
\* row is shorter than the header.
Col(header, row, name) ==
    LET i == CHOOSE j \in 1..Len(header) : header[j] = name
    IN  IF i <= Len(row) THEN row[i] ELSE None

\* parse_timestamp / float applied to a cell: the exception raised, or "ok".
StrptimeError(c) ==
    IF c = None THEN "TypeError" ELSE IF c.k = "ts" THEN "ok" ELSE "ValueError"

FloatError(c) ==
    IF c = None THEN "TypeError" ELSE IF c.k = "num" THEN "ok" ELSE "ValueError"

----------------------------------------------------------------------------
(* Trend analyzer *)

NoSample == [kind |-> "skip", pid |-> None, ts |-> 0, rss |-> 0, cmd |-> None]

\* The body of the row loop of _analyze_memory_trends_csv: "skip" (continue,
\* or an exception the except clause catches), "raise" (an exception it does
\* not catch), or the sample the row contributes.
MemRowStep(header, row, cutoff) ==
    IF ~HasCol(header, "timestamp") THEN NoSample
    ELSE LET tc == Col(header, row, "timestamp") IN
    IF StrptimeError(tc) = "TypeError" THEN [NoSample EXCEPT !.kind = "raise"]
    ELSE IF StrptimeError(tc) = "ValueError" THEN NoSample
    ELSE IF tc.v < cutoff THEN NoSample
    ELSE IF ~HasCol(header, "pid") \/ ~HasCol(header, "rss_mb") THEN NoSample
    ELSE LET rc == Col(header, row, "rss_mb") IN
    IF FloatError(rc) = "TypeError" THEN [NoSample EXCEPT !.kind = "raise"]
    ELSE IF FloatError(rc) = "ValueError" THEN NoSample
    ELSE IF ~HasCol(header, "command") THEN NoSample
    ELSE [kind |-> "sample", pid |-> Col(header, row, "pid"), ts |-> tc.v,
          rss |-> rc.v, cmd |-> Col(header, row, "command")]

\* process_data[pid] after one more sample: the defaultdict keeps its keys in
\* the order they were first seen.
AddSample(pd, pid, ts, rss, cmd) ==
    LET at == { i \in 1..Len(pd) : pd[i].pid = pid }
        pd1 == IF at = {}
               THEN Append(pd, [pid |-> pid, max_rss |-> 0, samples |-> << >>,
                                cmd |-> TxtCell(0)])
               ELSE pd
        i == CHOOSE j \in 1..Len(pd1) : pd1[j].pid = pid
    IN  [pd1 EXCEPT ![i] = [pid |-> pid,
                            max_rss |-> Max2(pd1[i].max_rss, rss),
                            samples |-> Append(pd1[i].samples,
                                               [key |-> ts, val |-> rss]),
                            cmd |-> cmd]]

\* growth / first_rss * 100 as the exact fraction << numerator, denominator >>.
GrowthPct(growth, first_rss) ==
    IF first_rss > 0 THEN << growth * 100, first_rss >> ELSE << 0, 1 >>

\* One entry of results for a process_data item with at least two samples.
GrowthResult(d) ==
    LET samples == SortedAsc(d.samples)
        first_rss == samples[1].val
        last_rss == samples[Len(samples)].val
        growth == last_rss - first_rss
    IN  [pid |-> d.pid, command |-> d.cmd, first_rss |-> first_rss,
         last_rss |-> last_rss, max_rss |-> d.max_rss, growth_mb |-> growth,
         growth_pct |-> GrowthPct(growth, first_rss), samples |-> Len(samples)]

\* The results loop: items with fewer than two samples are passed over.
RawResults(pd) ==
    LET kept == SelectSeq(pd, LAMBDA d : Len(d.samples) >= 2)
    IN  [ i \in 1..Len(kept) |-> GrowthResult(kept[i]) ]

\* A result list that is returned in the order of process_data.
GrowthResultsUnsorted(pd) == RawResults(pd)

\* The results loop and the final sorted(results, key=growth_mb, reverse=True).
GrowthResults(pd) ==
    LET raw == RawResults(pd)
    IN  Vals(SortedDesc([ i \in 1..Len(raw) |->
                            [key |-> raw[i].growth_mb, val |-> raw[i]] ]))

Returned(value) == [status |-> "ok", exc |-> "", value |-> value]
Raised(exc) == [status |-> "raised", exc |-> exc, value |-> << >>]

RECURSIVE ScanMemRows(_, _, _, _)
ScanMemRows(header, rows, cutoff, pd) ==
    IF rows = << >> THEN Returned(GrowthResults(pd))
    ELSE LET s == MemRowStep(header, rows[1], cutoff) IN
         IF s.kind = "raise" THEN Raised("TypeError")
         ELSE ScanMemRows(header, Tail(rows), cutoff,
                          IF s.kind = "sample"
                          THEN AddSample(pd, s.pid, s.ts, s.rss, s.cmd)
                          ELSE pd)

analyze_memory_trends_csv(hours) ==
    IF ~memFile THEN Returned(<< >>)
    ELSE ScanMemRows(memHeader, memRows, now - hours, << >>)

\* SELECT ... FROM process_samples ps JOIN snapshots s ON ps.snapshot_id = s.id
\* WHERE s.timestamp >= cutoff ORDER BY s.timestamp ASC
TrendQuery(cutoff) ==
    LET joined == SelectSeq(process_samples, LAMBDA ps :
                     \E i \in 1..Len(snapshots) :
                         /\ snapshots[i].id = ps.snapshot_id
                         /\ snapshots[i].timestamp >= cutoff)
        TsOf(ps) == LET i == CHOOSE j \in 1..Len(snapshots) :
                                 snapshots[j].id = ps.snapshot_id
                    IN  snapshots[i].timestamp
    IN  Vals(SortedAsc([ i \in 1..Len(joined) |->
                           [key |-> TsOf(joined[i]),
                            val |-> [pid |-> joined[i].pid,
                                     name |-> joined[i].name,
                                     memory_mb |-> joined[i].memory_mb,
                                     ts |-> TsOf(joined[i])]] ]))

RECURSIVE FoldSamples(_, _)
FoldSamples(rows, pd) ==
    IF rows = << >> THEN pd
    ELSE FoldSamples(Tail(rows),
                     AddSample(pd, rows[1].pid, rows[1].ts, rows[1].memory_mb,
                               rows[1].name))

analyze_memory_trends_sqlite(hours) ==
    IF ~({"process_samples", "snapshots"} \subseteq tables)
    THEN Raised("OperationalError")
    ELSE Returned(GrowthResults(FoldSamples(TrendQuery(now - hours), << >>)))

\* analyze_memory_trends(hours, conn); c = 0 is conn = None.
analyze_memory_trends(hours, c) ==
    IF c # 0 THEN analyze_memory_trends_sqlite(hours)
    ELSE IF dbExists THEN analyze_memory_trends_sqlite(hours)
    ELSE analyze_memory_trends_csv(hours)

----------------------------------------------------------------------------
(* Swap analyzer *)

NoSwap == [kind |-> "skip", timestamp |-> 0, swap_mb |-> 0, total_mb |-> 0,
           free_pct |-> 0]

\* float(row[name]) inside the row loop: "KeyError", "TypeError", "ValueError"
\* or "ok".
FloatColError(header, row, name) ==
    IF ~HasCol(header, name) THEN "KeyError"
    ELSE FloatError(Col(header, row, name))

\* The first exception among the three float(...) of the dict display, which
\* are evaluated in order; "ok" when there is none.
SwapFloatsError(header, row) ==
    LET e1 == FloatColError(header, row, "swap_used_mb")
        e2 == FloatColError(header, row, "swap_total_mb")
        e3 == FloatColError(header, row, "free_pct")
    IN  IF e1 # "ok" THEN e1 ELSE IF e2 # "ok" THEN e2 ELSE e3

\* The body of the row loop of _analyze_swap_usage_csv.
SwapRowStep(header, row, cutoff) ==
    IF ~HasCol(header, "timestamp") THEN NoSwap
    ELSE LET tc == Col(header, row, "timestamp") IN
    IF StrptimeError(tc) = "TypeError" THEN [NoSwap EXCEPT !.kind = "raise"]
    ELSE IF StrptimeError(tc) = "ValueError" THEN NoSwap
    ELSE IF tc.v < cutoff THEN NoSwap
    ELSE LET e == SwapFloatsError(header, row) IN
    IF e = "TypeError" THEN [NoSwap EXCEPT !.kind = "raise"]
    ELSE IF e # "ok" THEN NoSwap
    ELSE [kind |-> "sample", timestamp |-> tc.v,
          swap_mb |-> Col(header, row, "swap_used_mb").v,
          total_mb |-> Col(header, row, "swap_total_mb").v,
          free_pct |-> Col(header, row, "free_pct").v]

\* The summary dict; avg_swap_mb is the exact fraction << sum, count >>.  The
\* empty dict is the empty sequence, a summary is a one-element sequence.
SwapSummary(swap_data) ==
    IF swap_data = << >> THEN << >>
    ELSE LET used == [ i \in 1..Len(swap_data) |-> swap_data[i].swap_mb ]
         IN  << [avg_swap_mb |-> << SeqSum(used), Len(swap_data) >>,
                 max_swap_mb |-> SetMax(Range(used)),
                 min_free_pct |-> SetMin({ swap_data[i].free_pct :
                                             i \in 1..Len(swap_data) }),
                 samples |-> Len(swap_data),
                 estimated_ssd_writes_mb |-> SeqSum(used),
                 swap_data |-> swap_data] >>

RECURSIVE ScanSwapRows(_, _, _, _)
ScanSwapRows(header, rows, cutoff, swap_data) ==
    IF rows = << >> THEN Returned(SwapSummary(swap_data))
    ELSE LET s == SwapRowStep(header, rows[1], cutoff) IN
         IF s.kind = "raise" THEN Raised("TypeError")
         ELSE ScanSwapRows(header, Tail(rows), cutoff,
                  IF s.kind = "sample"
                  THEN Append(swap_data,
                              [timestamp |-> s.timestamp, swap_mb |-> s.swap_mb,
                               total_mb |-> s.total_mb, free_pct |-> s.free_pct])
                  ELSE swap_data)

analyze_swap_usage_csv(hours) ==
    IF ~swapFile THEN Returned(<< >>)
    ELSE ScanSwapRows(swapHeader, swapRows, now - hours, << >>)

\* SELECT timestamp, swap_used_mb, swap_total_mb, swap_free_percent
\* FROM snapshots WHERE timestamp >= cutoff ORDER BY timestamp ASC
SwapQuery(cutoff) ==
    LET hit == SelectSeq(snapshots, LAMBDA s : s.timestamp >= cutoff)
    IN  Vals(SortedAsc([ i \in 1..Len(hit) |->
                           [key |-> hit[i].timestamp,
                            val |-> [timestamp |-> hit[i].timestamp,
                                     swap_mb |-> hit[i].swap_used_mb,
                                     total_mb |-> hit[i].swap_total_mb,
                                     free_pct |-> hit[i].swap_free_percent]] ]))

analyze_swap_usage_sqlite(hours) ==
    IF "snapshots" \notin tables THEN Raised("OperationalError")
    ELSE Returned(SwapSummary(SwapQuery(now - hours)))

\* analyze_swap_usage(hours, conn)
analyze_swap_usage(hours, c) ==
    IF c # 0 THEN analyze_swap_usage_sqlite(hours)
    ELSE IF dbExists THEN analyze_swap_usage_sqlite(hours)
    ELSE analyze_swap_usage_csv(hours)

----------------------------------------------------------------------------
(* Alerts *)

\* LIMIT of the leak query, the hint query, the system alert query and the
\* artifact query.
LEAK_LIMIT == 200
HINT_LIMIT == 50
SYSTEM_LIMIT == 50
ARTIFACT_LIMIT == 200

\* The default windows of get_memory_leaks, get_diagnostic_hints,
\* get_system_alerts and get_diagnostic_artifacts.
LEAK_HOURS == 168
HINT_HOURS == 48
SYSTEM_HOURS == 72
ARTIFACT_HOURS == 48

LEAK_TYPES == {"MEMORY_LEAK", "RAPID_GROWTH"}
HINT_TYPES == {"DIAGNOSTIC_HINT"}
SYSTEM_TYPES == {"SYSTEM_PRESSURE", "HIGH_SWAP", "DATASTORE_WARNING"}

\* A metadata payload: NULL ("none"), the empty string ("empty"), a text that
\* is no JSON ("garbage"), or a JSON text ("json") of a value of type t; m
\* holds the keys of an object, each absent (<< >>) or present (<< value >>).
NoKeys == [artifact_path |-> << >>, artifact_exists |-> << >>, title |-> << >>,
           swap_used_mb |-> << >>, swap_total_mb |-> << >>, pressure |-> << >>]
MetaNull == [k |-> "none", t |-> "", m |-> NoKeys]
MetaEmpty == [k |-> "empty", t |-> "", m |-> NoKeys]
MetaGarbage == [k |-> "garbage", t |-> "", m |-> NoKeys]
MetaJson(t, m) == [k |-> "json", t |-> t, m |-> m]

\* "if metadata:" is false of NULL and of the empty string.
MetaTruthy(metadata) == metadata.k \notin {"none", "empty"}

\* What parsing the payload and reading its keys with meta.get raises:
\* json.loads raises JSONDecodeError on a text that is no JSON; a parsed value
\* that is no object has no get, and the attribute lookup raises
\* AttributeError.
LoadsError(metadata) == IF metadata.k = "garbage" THEN "JSONDecodeError" ELSE "ok"
GetError(metadata) == IF metadata.t = "object" THEN "ok" ELSE "AttributeError"

\* "if name:" is false of None and of the empty string.
Falsy(c) == c = None \/ c = TxtCell(0)

\* The rows of a store kept as runs [row, n] of n equal consecutive rows.
RECURSIVE Expand(_)
Expand(runs) ==
    IF runs = << >> THEN << >>
    ELSE [ i \in 1..runs[1].n |-> runs[1].row ] \o Expand(Tail(runs))

Min2(a, b) == IF a <= b THEN a ELSE b

\* SELECT ... FROM alerts WHERE timestamp >= cutoff AND type IN types
\* ORDER BY timestamp DESC LIMIT limit.  Rows of one timestamp come in rowid
\* order.
AlertQuery(types, cutoff, limit) ==
    LET hit == SelectSeq(Expand(alerts), LAMBDA a :
                   a.timestamp >= cutoff /\ a.type \in types)
        ordered == Vals(SortedDesc([ i \in 1..Len(hit) |->
                          [key |-> hit[i].timestamp, val |-> hit[i]] ]))
    IN  SubSeq(ordered, 1, Min2(limit, Len(ordered)))

\* The suffix parts " PID=..." and " process=...", each absent or present.
PidSuffix(a) == IF a.pid # None THEN << a.pid >> ELSE << >>
NameSuffix(a) == IF ~Falsy(a.process_name) THEN << a.process_name >> ELSE << >>

\* f"[{timestamp}] {alert_type}: {message}{suffix}" as its parts.
LeakLine(a) ==
    [timestamp |-> a.timestamp, type |-> a.type, message |-> a.message,
     pid |-> PidSuffix(a), process |-> NameSuffix(a)]

get_memory_leaks_sqlite(hours) ==
    IF "alerts" \notin tables THEN Raised("OperationalError")
    ELSE LET rows == AlertQuery(LEAK_TYPES, now - hours, LEAK_LIMIT)
         IN  Returned([ i \in 1..Len(rows) |-> LeakLine(rows[i]) ])

\* The lines of memory_leaks.log that contain "POTENTIAL LEAK", in file order.
get_memory_leaks_legacy ==
    IF ~leaksFile THEN Returned(<< >>)
    ELSE Returned(SelectSeq(Expand(leakLines), LAMBDA l : l.leak))

\* get_memory_leaks(conn, hours): the legacy path is not given the window.
get_memory_leaks(c, hours) ==
    IF c # 0 THEN get_memory_leaks_sqlite(hours)
    ELSE IF dbExists THEN get_memory_leaks_sqlite(hours)
    ELSE get_memory_leaks_legacy

\* The exception the loop body of _get_diagnostic_hints_sqlite raises on a
\* row, "ok" when it raises none: JSONDecodeError is caught there.
HintRowError(metadata) ==
    IF ~MetaTruthy(metadata) THEN "ok"
    ELSE IF LoadsError(metadata) # "ok" THEN "ok"
    ELSE GetError(metadata)

\* f"[{timestamp}] {message}{suffix}" as its parts.
HintLine(a, metadata) ==
    LET parsed == MetaTruthy(metadata) /\ LoadsError(metadata) = "ok"
    IN  [timestamp |-> a.timestamp, message |-> a.message,
         pid |-> PidSuffix(a), process |-> NameSuffix(a),
         artifact |-> IF parsed THEN metadata.m.artifact_path ELSE << >>,
         missing |-> parsed /\ metadata.m.artifact_exists = << "false" >>]

\* The loop of _get_diagnostic_hints_sqlite and of _get_system_alerts_sqlite
\* over the rows: the first exception a row raises ends the call.
FirstError(errors) ==
    LET bad == { i \in 1..Len(errors) : errors[i] # "ok" }
    IN  IF bad = {} THEN "ok" ELSE errors[SetMin(bad)]

get_diagnostic_hints_sqlite(hours) ==
    IF "alerts" \notin tables THEN Raised("OperationalError")
    ELSE LET rows == AlertQuery(HINT_TYPES, now - hours, HINT_LIMIT)
             \* without the metadata column the second query pads with None
             Meta(a) == IF metadataColumn THEN a.metadata ELSE MetaNull
             err == FirstError([ i \in 1..Len(rows) |-> HintRowError(Meta(rows[i])) ])
         IN  IF err # "ok" THEN Raised(err)
             ELSE Returned([ i \in 1..Len(rows) |-> HintLine(rows[i], Meta(rows[i])) ])

\* get_diagnostic_hints(conn, hours)
get_diagnostic_hints(c, hours) ==
    IF c # 0 THEN get_diagnostic_hints_sqlite(hours)
    ELSE IF dbExists THEN get_diagnostic_hints_sqlite(hours)
    ELSE Returned(<< >>)

\* The exception the loop body of _get_system_alerts_sqlite raises on a row:
\* a payload that is no JSON becomes {}, and meta.get("pressure") is
\* evaluated for every type.
SystemRowError(metadata) ==
    IF ~MetaTruthy(metadata) THEN "ok"
    ELSE IF LoadsError(metadata) # "ok" THEN "ok"
    ELSE GetError(metadata)

\* A key's value when it is present and truthy (a number other than 0).
TruthyKey(v) == IF v # << >> /\ v # << 0 >> THEN v ELSE << >>

\* f"[{timestamp}] {alert_type}: {message}{detail_suffix}" as its parts.
SystemLine(a) ==
    LET m == IF MetaTruthy(a.metadata) /\ LoadsError(a.metadata) = "ok"
             THEN a.metadata.m ELSE NoKeys
        swap == a.type = "HIGH_SWAP"
    IN  [timestamp |-> a.timestamp, type |-> a.type, message |-> a.message,
         swap |-> IF swap THEN TruthyKey(m.swap_used_mb) ELSE << >>,
         total |-> IF swap THEN TruthyKey(m.swap_total_mb) ELSE << >>,
         pressure |-> TruthyKey(m.pressure)]

get_system_alerts_sqlite(hours) ==
    IF "alerts" \notin tables \/ ~metadataColumn THEN Raised("OperationalError")
    ELSE LET rows == AlertQuery(SYSTEM_TYPES, now - hours, SYSTEM_LIMIT)
             err == FirstError([ i \in 1..Len(rows) |->
                                    SystemRowError(rows[i].metadata) ])
         IN  IF err # "ok" THEN Raised(err)
             ELSE Returned([ i \in 1..Len(rows) |-> SystemLine(rows[i]) ])

\* get_system_alerts(conn, hours)
get_system_alerts(c, hours) ==
    IF c # 0 THEN get_system_alerts_sqlite(hours)
    ELSE IF dbExists THEN get_system_alerts_sqlite(hours)
    ELSE Returned(<< >>)

----------------------------------------------------------------------------
(* Artifact verifier.  A path is the sequence of its components: "/" first  *)
(* when it is absolute, "~" first when it starts at the home directory.     *)

HOME == << "/", "root" >>
CWD == << "/", "tmp" >>

\* Path(text): pathlib drops the "." components and the doubled slashes.
PathOf(text) == SelectSeq(text, LAMBDA c : c # ".")

\* Path.expanduser(): a leading "~" becomes the home directory; the path is
\* otherwise left as it is, relative or with "..".
ExpandUser(p) == IF p # << >> /\ p[1] = "~" THEN HOME \o Tail(p) ELSE p

RECURSIVE WalkDotDot(_, _)
WalkDotDot(p, done) ==
    IF p = << >> THEN done
    ELSE IF p[1] = ".."
         THEN WalkDotDot(Tail(p), IF Len(done) > 1
                                  THEN SubSeq(done, 1, Len(done) - 1) ELSE done)
         ELSE WalkDotDot(Tail(p), Append(done, p[1]))

\* The file a path names: the absolute path from the working directory, with
\* ".." followed (no symbolic links).
Resolve(p) ==
    WalkDotDot(IF p # << >> /\ p[1] = "/" THEN p ELSE CWD \o p, << >>)

\* Path.exists(): the operating system looks the file up.
PathExists(p) == Resolve(p) \in fs

\* The loop body of _get_diagnostic_artifacts_sqlite: "skip" (continue),
\* "raise", or "entry".
ArtifactRowKind(a) ==
    IF ~MetaTruthy(a.metadata) THEN "skip"
    ELSE IF LoadsError(a.metadata) # "ok" THEN "skip"
    ELSE IF GetError(a.metadata) # "ok" THEN "raise"
    ELSE IF a.metadata.m.artifact_path = << >> THEN "skip"
    ELSE "entry"

ArtifactEntry(a) ==
    LET expanded == ExpandUser(PathOf(a.metadata.m.artifact_path[1]))
        title == IF a.metadata.m.title # << >> THEN a.metadata.m.title[1]
                 ELSE a.message
    IN  [title |-> title, path |-> expanded, exists |-> PathExists(expanded)]

\* artifacts.sort(key=title)
ArtifactsSorted(artifacts) ==
    Vals(SortedAsc([ i \in 1..Len(artifacts) |->
                       [key |-> artifacts[i].title, val |-> artifacts[i]] ]))

\* The loop over the rows with its seen set: a row's entry is appended unless
\* an earlier row gave an entry of the same key (expanded path, exists); a
\* row that raises ends the call.
ScanArtifacts(rows) ==
    LET n == Len(rows)
        kind == [ i \in 1..n |-> ArtifactRowKind(rows[i]) ]
        entryAt == [ i \in 1..n |->
                       IF kind[i] = "entry" THEN ArtifactEntry(rows[i])
                       ELSE [title |-> 0, path |-> << >>, exists |-> FALSE] ]
        first == { i \in 1..n :
                     /\ kind[i] = "entry"
                     /\ \A j \in 1..(i - 1) :
                           kind[j] = "entry" =>
                               << entryAt[j].path, entryAt[j].exists >>
                                   # << entryAt[i].path, entryAt[i].exists >> }
        kept == SelectSeq([ i \in 1..n |-> i ], LAMBDA i : i \in first)
    IN  IF \E i \in 1..n : kind[i] = "raise" THEN Raised("AttributeError")
        ELSE Returned(ArtifactsSorted([ i \in 1..Len(kept) |-> entryAt[kept[i]] ]))

get_diagnostic_artifacts_sqlite(hours) ==
    IF "alerts" \notin tables \/ ~metadataColumn THEN Raised("OperationalError")
    ELSE ScanArtifacts(AlertQuery(HINT_TYPES, now - hours, ARTIFACT_LIMIT))

\* get_diagnostic_artifacts(conn, hours)
get_diagnostic_artifacts(c, hours) ==
    IF c # 0 THEN get_diagnostic_artifacts_sqlite(hours)
    ELSE IF dbExists THEN get_diagnostic_artifacts_sqlite(hours)
    ELSE Returned(<< >>)

----------------------------------------------------------------------------
(* Report assembler *)

\* How many entries a section shows: trends[:10], leaks[-20:], hints[:15],
\* system_alerts[:20], artifacts[:20]; the high-swap threshold in megabytes.
TRENDS_SHOWN == 10
LEAKS_SHOWN == 20
HINTS_SHOWN == 15
SYSTEM_SHOWN == 20
ARTIFACTS_SHOWN == 20
HIGH_SWAP_MB == 1024

SECTION_TITLES ==
    << "## Top Memory Growth Processes", "## Swap Usage Analysis",
       "## Potential Memory Leaks", "## Diagnostic Suggestions",
       "## Notification Preferences", "## System Alerts",
       "## Diagnostic Artifacts" >>

\* One section of the buffer: its header, whether the placeholder line was
\* written, the "Found N" count (leaks), the warning block (swap), the lines.
Section(n, placeholder, found, warning, lines) ==
    [title |-> SECTION_TITLES[n], placeholder |-> placeholder, found |-> found,
     warning |-> warning, lines |-> lines]

\* s[:n] and s[-n:]
FirstN(s, n) == SubSeq(s, 1, Min2(n, Len(s)))
LastN(s, n) == SubSeq(s, Max2(1, Len(s) - n + 1), Len(s))

\* minutes_to_hhmm as << hours, minutes >>
minutes_to_hhmm(minutes) ==
    LET m == minutes % (24 * 60) IN << m \div 60, m % 60 >>

\* The preferences file: absent, not JSON ("unparseable"), or the JSON of a
\* value of type t; for an object, each key absent (<< >>) or present.
PrefsAbsent ==
    [k |-> "absent", t |-> "", quietHours |-> << >>, allow |-> << >>,
     leak |-> << >>, pressure |-> << >>]
PrefsJson(t, quiet, allow, leak, pressure) ==
    [k |-> "json", t |-> t, quietHours |-> quiet, allow |-> allow,
     leak |-> leak, pressure |-> pressure]

\* load_notification_preferences() is None.
PrefsNone(f) == f.k \in {"absent", "unparseable"}

\* "if prefs:" of what was loaded: None and the empty object are false.
PrefsTruthy(f) ==
    /\ ~PrefsNone(f)
    /\ ~(f.t = "object" /\ f.quietHours = << >> /\ f.allow = << >>
         /\ f.leak = << >> /\ f.pressure = << >>)

\* prefs.get(...) on a value that is no object.
PrefsError(f) ==
    IF PrefsTruthy(f) /\ f.t # "object" THEN "AttributeError" ELSE "ok"

PrefsLines(f) ==
    << [line |-> "Quiet hours",
        value |-> IF f.quietHours # << >>
                  THEN << minutes_to_hhmm(f.quietHours[1].startMinutes),
                          minutes_to_hhmm(f.quietHours[1].endMinutes) >>
                  ELSE << >>],
       [line |-> IF f.allow = << TRUE >> THEN "Quiet-hour policy: deliver"
                 ELSE "Quiet-hour policy: hold", value |-> << >>],
       [line |-> IF f.leak # << FALSE >> THEN "Leak alerts: enabled"
                 ELSE "Leak alerts: disabled", value |-> << >>],
       [line |-> IF f.pressure # << FALSE >> THEN "Pressure alerts: enabled"
                 ELSE "Pressure alerts: disabled", value |-> << >>] >>

\* The format specification :<30 applied to a command that is None raises
\* TypeError.
TrendsRenderError(trends) ==
    IF \E i \in 1..Len(FirstN(trends, TRENDS_SHOWN)) : trends[i].command = None
    THEN "TypeError" ELSE "ok"

TrendsSection(trends) ==
    Section(1, trends = << >>, 0, FALSE, FirstN(trends, TRENDS_SHOWN))

SwapSection(swap) ==
    Section(2, swap = << >>, 0,
            swap # << >> /\ swap[1].max_swap_mb > HIGH_SWAP_MB,
            [ i \in 1..Len(swap) |->
                [avg_swap_mb |-> swap[i].avg_swap_mb,
                 max_swap_mb |-> swap[i].max_swap_mb,
                 min_free_pct |-> swap[i].min_free_pct,
                 estimated_ssd_writes_mb |-> swap[i].estimated_ssd_writes_mb,
                 samples |-> swap[i].samples] ])

LeaksSection(leaks) ==
    Section(3, leaks = << >>, Len(leaks), FALSE, LastN(leaks, LEAKS_SHOWN))

HintsSection(hints) ==
    Section(4, hints = << >>, 0, FALSE, FirstN(hints, HINTS_SHOWN))

PrefsSection(f) ==
    Section(5, ~PrefsTruthy(f), 0, FALSE,
            IF PrefsTruthy(f) THEN PrefsLines(f) ELSE << >>)

SystemSection(system_alerts) ==
    Section(6, system_alerts = << >>, 0, FALSE, FirstN(system_alerts, SYSTEM_SHOWN))

ArtifactsSection(artifacts) ==
    Section(7, artifacts = << >>, 0, FALSE, FirstN(artifacts, ARTIFACTS_SHOWN))

(* Sessions: [owner, open, closes, misused] *)

\* db_connection(): a connection when the database file exists, else None.
db_connection(ss) ==
    IF dbExists
    THEN Append(ss, [owner |-> "generate_report", open |-> TRUE, closes |-> 0,
                     misused |-> FALSE])
    ELSE ss

\* conn.execute on the shared connection.
Execute(ss, c) == [ss EXCEPT ![c].misused = @ \/ ~ss[c].open]

\* with closing(sqlite3.connect(DB_FILE)) as db: return ...(db, hours); the
\* connection is closed when the block is left, by return or by exception.
WithClosing(ss, owner) ==
    Append(ss, [owner |-> owner, open |-> FALSE, closes |-> 1, misused |-> FALSE])

\* The sessions after an analyzer was called with connection c (0: None).
AnalyzerSessions(ss, c, owner) ==
    IF c # 0 THEN Execute(ss, c)
    ELSE IF dbExists THEN WithClosing(ss, owner)
    ELSE ss

\* A finally clause that closes the connection only when nothing was raised.
CloseUnlessRaised(ss, c) ==
    IF c # 0 /\ pc.exc = ""
    THEN [ss EXCEPT ![c].open = FALSE, ![c].closes = @ + 1]
    ELSE ss

\* finally: if conn is not None: conn.close()
FinallyClose(ss, c) ==
    IF c # 0 THEN [ss EXCEPT ![c].open = FALSE, ![c].closes = @ + 1] ELSE ss

----------------------------------------------------------------------------
(* The state machine: the sampler fills the stores, then an analyzer is     *)
(* called.  A call leaves the stores alone, so out describes the stores it  *)
(* is found with.                                                           *)

ALL_TABLES == {"snapshots", "process_samples", "alerts"}

Idle == [at |-> "idle", hours |-> 0, exc |-> ""]

NoCall == [op |-> "none", backend |-> "", hours |-> 0, status |-> "ok",
           exc |-> "", value |-> << >>]

Call(op, backend, hours, r) ==
    [op |-> op, backend |-> backend, hours |-> hours, status |-> r.status,
     exc |-> r.exc, value |-> r.value]

Backend == IF dbExists THEN "sqlite" ELSE "flat"

\* The windows a caller asks for.
Hours == {1, DEFAULT_HOURS}

OldT == NowT - 30
MidT == NowT - 2
NewT == NowT - 1

Snapshot(id, ts, used, free) ==
    [id |-> id, timestamp |-> ts, swap_used_mb |-> used,
     swap_total_mb |-> 2048, swap_free_percent |-> free]

\* The state before the sampler has written anything: no database, no file.
InitBase ==
    /\ now = NowT
    /\ dbExists = FALSE
    /\ tables = ALL_TABLES
    /\ metadataColumn = TRUE
    /\ snapshots = << >>
    /\ process_samples = << >>
    /\ alerts = << >>
    /\ memFile = FALSE
    /\ memHeader = MEM_HEADER
    /\ memRows = << >>
    /\ swapFile = FALSE
    /\ swapHeader = SWAP_HEADER
    /\ swapRows = << >>
    /\ leaksFile = FALSE
    /\ leakLines = << >>
    /\ prefs = PrefsAbsent
    /\ fs = {}
    /\ out = NoCall
    /\ pc = Idle
    /\ conn = 0
    /\ sessions = << >>
    /\ report = << >>

\* The sampler creates the database with its schema.
CreateDatabase ==
    /\ out = NoCall /\ pc = Idle
    /\ ~dbExists /\ ~memFile /\ ~swapFile /\ ~leaksFile
    /\ dbExists' = TRUE
    /\ UNCHANGED << now, tables, metadataColumn, snapshots, process_samples,
                    alerts, memFile, memHeader, memRows, swapFile, swapHeader,
                    swapRows, leaksFile, leakLines, prefs, fs, out, pc, conn,
                    sessions, report >>

(* memory_log.csv *)

Pids == {NumCell(100), NumCell(200)}
RssCells == {NumCell(50), NumCell(80)}

\* The rows the sampler or a damaged file may hold: complete rows, a row cut
\* after the pid, a row cut after rss_mb, a bad timestamp, a bad number.
MemRowDomain ==
    { << TsCell(t), p, r, TxtCell(1) >> : t \in {MidT, NewT}, p \in Pids,
                                           r \in RssCells }
    \cup { << TsCell(OldT), NumCell(100), NumCell(50), TxtCell(1) >>,
           << TsCell(NewT), NumCell(100) >>,
           << TsCell(NewT), NumCell(100), NumCell(80) >>,
           << TxtCell(9), NumCell(100), NumCell(50), TxtCell(1) >>,
           << TsCell(NewT), NumCell(100), TxtCell(9), TxtCell(1) >> }

CreateMemLog ==
    /\ out = NoCall /\ pc = Idle
    /\ ~dbExists /\ ~memFile
    /\ memFile' = TRUE
    /\ memHeader' = MEM_HEADER
    /\ UNCHANGED << now, dbExists, tables, metadataColumn, snapshots,
                    process_samples, alerts, memRows, swapFile, swapHeader,
                    swapRows, leaksFile, leakLines, prefs, fs, out, pc, conn,
                    sessions, report >>

\* A memory log written with a header that has no command column.
CreateMemLogNoCommand ==
    /\ out = NoCall /\ pc = Idle
    /\ ~dbExists /\ ~memFile
    /\ memFile' = TRUE
    /\ memHeader' = << "timestamp", "pid", "rss_mb" >>
    /\ UNCHANGED << now, dbExists, tables, metadataColumn, snapshots,
                    process_samples, alerts, memRows, swapFile, swapHeader,
                    swapRows, leaksFile, leakLines, prefs, fs, out, pc, conn,
                    sessions, report >>

AppendMemRow ==
    /\ out = NoCall /\ pc = Idle
    /\ memFile
    /\ Len(memRows) + Len(swapRows) < MaxRows
    /\ \E row \in MemRowDomain : memRows' = Append(memRows, row)
    /\ UNCHANGED << now, dbExists, tables, metadataColumn, snapshots,
                    process_samples, alerts, memFile, memHeader, swapFile,
                    swapHeader, swapRows, leaksFile, leakLines, prefs, fs, out,
                    pc, conn, sessions, report >>

(* swap_history.csv *)

SwapRowDomain ==
    { << TsCell(t), NumCell(u), NumCell(2048), NumCell(50) >> :
          t \in {OldT, MidT, NewT}, u \in {200, 400} }
    \cup { << TsCell(NewT), NumCell(300) >>,
           << TxtCell(9), NumCell(300), NumCell(2048), NumCell(50) >>,
           << TsCell(NewT), TxtCell(9), NumCell(2048), NumCell(50) >> }

CreateSwapLog ==
    /\ out = NoCall /\ pc = Idle
    /\ ~dbExists /\ ~swapFile
    /\ swapFile' = TRUE
    /\ swapHeader' = SWAP_HEADER
    /\ UNCHANGED << now, dbExists, tables, metadataColumn, snapshots,
                    process_samples, alerts, memFile, memHeader, memRows,
                    swapRows, leaksFile, leakLines, prefs, fs, out, pc, conn,
                    sessions, report >>

AppendSwapRow ==
    /\ out = NoCall /\ pc = Idle
    /\ swapFile
    /\ Len(memRows) + Len(swapRows) < MaxRows
    /\ \E row \in SwapRowDomain : swapRows' = Append(swapRows, row)
    /\ UNCHANGED << now, dbExists, tables, metadataColumn, snapshots,
                    process_samples, alerts, memFile, memHeader, memRows,
                    swapFile, swapHeader, leaksFile, leakLines, prefs, fs, out,
                    pc, conn, sessions, report >>

(* The database: snapshots and process_samples *)

\* One sampling tick: a snapshot row with the next id.
InsertSnapshot ==
    /\ out = NoCall /\ pc = Idle
    /\ dbExists
    /\ Len(snapshots) < MaxSnapshots
    /\ \E t \in {OldT, MidT, NewT}, u \in {200, 300, 400}, f \in {10, 50} :
          snapshots' = Append(snapshots, Snapshot(Len(snapshots) + 1, t, u, f))
    /\ UNCHANGED << now, dbExists, tables, metadataColumn, process_samples,
                    alerts, memFile, memHeader, memRows, swapFile, swapHeader,
                    swapRows, leaksFile, leakLines, prefs, fs, out, pc, conn,
                    sessions, report >>

\* The snapshots of three ticks, the second one older than every window.
ThreeTicks ==
    << Snapshot(1, MidT, 200, 50), Snapshot(2, OldT, 200, 50),
       Snapshot(3, NewT, 200, 50) >>

\* Rows of process_samples: of an in-window snapshot, of the old snapshot, and
\* one whose snapshot is gone.
SampleDomain ==
    { [snapshot_id |-> i, pid |-> p, name |-> TxtCell(1), memory_mb |-> m] :
          i \in {1, 3}, p \in {100, 200}, m \in {50, 80} }
    \cup { [snapshot_id |-> 2, pid |-> 100, name |-> TxtCell(1), memory_mb |-> 50],
           [snapshot_id |-> 4, pid |-> 100, name |-> TxtCell(1), memory_mb |-> 50] }

InsertProcessSample ==
    /\ out = NoCall /\ pc = Idle
    /\ dbExists
    /\ Len(process_samples) < MaxSamples
    /\ \E ps \in SampleDomain : process_samples' = Append(process_samples, ps)
    /\ UNCHANGED << now, dbExists, tables, metadataColumn, snapshots, alerts,
                    memFile, memHeader, memRows, swapFile, swapHeader, swapRows,
                    leaksFile, leakLines, prefs, fs, out, pc, conn, sessions,
                    report >>

(* The calls *)

CallTrends ==
    /\ out = NoCall /\ pc = Idle
    /\ \E h \in Hours :
          out' = Call("analyze_memory_trends", Backend, h, analyze_memory_trends(h, 0))
    /\ UNCHANGED << now, dbExists, tables, metadataColumn, snapshots,
                    process_samples, alerts, memFile, memHeader, memRows,
                    swapFile, swapHeader, swapRows, leaksFile, leakLines, prefs,
                    fs, pc, conn, sessions, report >>

CallSwap ==
    /\ out = NoCall /\ pc = Idle
    /\ \E h \in Hours :
          out' = Call("analyze_swap_usage", Backend, h, analyze_swap_usage(h, 0))
    /\ UNCHANGED << now, dbExists, tables, metadataColumn, snapshots,
                    process_samples, alerts, memFile, memHeader, memRows,
                    swapFile, swapHeader, swapRows, leaksFile, leakLines, prefs,
                    fs, pc, conn, sessions, report >>

(* Specifications *)

\* The trend analyzer over either backend.
InitTrends ==
    \/ InitBase
    \/ /\ now = NowT /\ dbExists = TRUE /\ tables = ALL_TABLES
       /\ metadataColumn = TRUE /\ snapshots = ThreeTicks
       /\ process_samples = << >> /\ alerts = << >>
       /\ memFile = FALSE /\ memHeader = MEM_HEADER /\ memRows = << >>
       /\ swapFile = FALSE /\ swapHeader = SWAP_HEADER /\ swapRows = << >>
       /\ leaksFile = FALSE /\ leakLines = << >> /\ prefs = PrefsAbsent
       /\ fs = {} /\ out = NoCall /\ pc = Idle /\ conn = 0
       /\ sessions = << >> /\ report = << >>

NextTrends ==
    \/ CreateMemLog
    \/ AppendMemRow
    \/ InsertProcessSample
    \/ CallTrends

SpecTrends == InitTrends /\ [][NextTrends]_vars

\* The swap analyzer over either backend.
NextSwap ==
    \/ CreateDatabase
    \/ InsertSnapshot
    \/ CreateSwapLog
    \/ AppendSwapRow
    \/ CallSwap

SpecSwap == InitBase /\ [][NextSwap]_vars

\* The two flat-file scans.
NextCsv ==
    \/ CreateMemLog
    \/ CreateMemLogNoCommand
    \/ AppendMemRow
    \/ CreateSwapLog
    \/ AppendSwapRow
    \/ CallTrends
    \/ CallSwap

SpecCsv == InitBase /\ [][NextCsv]_vars

(* The database: alerts.  The legacy leak log. *)

\* A timestamp older than every default window.
AncientT == NowT - 169

Alert(ts, type, message, pid, name, metadata) ==
    [timestamp |-> ts, type |-> type, message |-> message, pid |-> pid,
     process_name |-> name, metadata |-> metadata]

Key(m, k, v) == [m EXCEPT ![k] = << v >>]

P_TMP_X == << "/", "tmp", "x" >>

LeakAlertDomain ==
    { Alert(t, ty, 1, pn[1], pn[2], MetaNull) :
          t \in {AncientT, MidT, NewT}, ty \in LEAK_TYPES,
          pn \in { << None, None >>, << NumCell(100), TxtCell(1) >> } }

HintMetas ==
    { MetaNull, MetaEmpty, MetaGarbage,
      MetaJson("array", NoKeys), MetaJson("number", NoKeys),
      MetaJson("object", NoKeys),
      MetaJson("object", Key(NoKeys, "artifact_path", P_TMP_X)),
      MetaJson("object", Key(Key(NoKeys, "artifact_path", P_TMP_X),
                             "artifact_exists", "false")) }

HintAlertDomain ==
    { Alert(t, "DIAGNOSTIC_HINT", 1, None, None, m) :
          t \in {AncientT, NewT}, m \in HintMetas }
    \cup { Alert(MidT, "DIAGNOSTIC_HINT", 1, NumCell(100), TxtCell(1), MetaNull) }

SystemMetas ==
    { MetaNull, MetaGarbage, MetaJson("string", NoKeys),
      MetaJson("object", Key(NoKeys, "pressure", 3)),
      MetaJson("object", Key(Key(NoKeys, "swap_used_mb", 0),
                             "swap_total_mb", 2048)) }

SystemAlertDomain ==
    { Alert(NewT, ty, 1, None, None, m) : ty \in SYSTEM_TYPES, m \in SystemMetas }
    \cup { Alert(t, "SYSTEM_PRESSURE", 1, None, None, MetaNull) :
              t \in {AncientT, MidT} }

\* How many equal rows the sampler writes in a row.
RunLengths == {1, HINT_LIMIT, LEAK_LIMIT}

\* Most runs of rows in the alerts table or the leak log.
MaxRuns == 2

InsertAlerts ==
    /\ out = NoCall /\ pc = Idle
    /\ dbExists
    /\ Len(alerts) < MaxRuns
    /\ \E a \in LeakAlertDomain \cup HintAlertDomain \cup SystemAlertDomain,
          n \in RunLengths :
          /\ metadataColumn \/ a.metadata = MetaNull
          /\ alerts' = Append(alerts, [row |-> a, n |-> n])
    /\ UNCHANGED << now, dbExists, tables, metadataColumn, snapshots,
                    process_samples, memFile, memHeader, memRows, swapFile,
                    swapHeader, swapRows, leaksFile, leakLines, prefs, fs, out,
                    pc, conn, sessions, report >>

CreateLeakLog ==
    /\ out = NoCall /\ pc = Idle
    /\ ~dbExists /\ ~leaksFile
    /\ leaksFile' = TRUE
    /\ UNCHANGED << now, dbExists, tables, metadataColumn, snapshots,
                    process_samples, alerts, memFile, memHeader, memRows,
                    swapFile, swapHeader, swapRows, leakLines, prefs, fs, out,
                    pc, conn, sessions, report >>

\* Lines of the leak log: with the marker "POTENTIAL LEAK" or without it.
AppendLeakLines ==
    /\ out = NoCall /\ pc = Idle
    /\ leaksFile
    /\ Len(leakLines) < MaxRuns
    /\ \E t \in {AncientT, MidT, NewT}, l \in BOOLEAN, n \in RunLengths :
          leakLines' = Append(leakLines,
                              [row |-> [timestamp |-> t, leak |-> l], n |-> n])
    /\ UNCHANGED << now, dbExists, tables, metadataColumn, snapshots,
                    process_samples, alerts, memFile, memHeader, memRows,
                    swapFile, swapHeader, swapRows, leaksFile, prefs, fs, out,
                    pc, conn, sessions, report >>

CallLeaks ==
    /\ out = NoCall /\ pc = Idle
    /\ \E h \in {1, LEAK_HOURS} :
          out' = Call("get_memory_leaks", Backend, h, get_memory_leaks(0, h))
    /\ UNCHANGED << now, dbExists, tables, metadataColumn, snapshots,
                    process_samples, alerts, memFile, memHeader, memRows,
                    swapFile, swapHeader, swapRows, leaksFile, leakLines, prefs,
                    fs, pc, conn, sessions, report >>

CallHints ==
    /\ out = NoCall /\ pc = Idle
    /\ \E h \in {1, HINT_HOURS} :
          out' = Call("get_diagnostic_hints", Backend, h, get_diagnostic_hints(0, h))
    /\ UNCHANGED << now, dbExists, tables, metadataColumn, snapshots,
                    process_samples, alerts, memFile, memHeader, memRows,
                    swapFile, swapHeader, swapRows, leaksFile, leakLines, prefs,
                    fs, pc, conn, sessions, report >>

CallSystemAlerts ==
    /\ out = NoCall /\ pc = Idle
    /\ \E h \in {1, SYSTEM_HOURS} :
          out' = Call("get_system_alerts", Backend, h, get_system_alerts(0, h))
    /\ UNCHANGED << now, dbExists, tables, metadataColumn, snapshots,
                    process_samples, alerts, memFile, memHeader, memRows,
                    swapFile, swapHeader, swapRows, leaksFile, leakLines, prefs,
                    fs, pc, conn, sessions, report >>

CallArtifacts ==
    /\ out = NoCall /\ pc = Idle
    /\ \E h \in {1, ARTIFACT_HOURS} :
          out' = Call("get_diagnostic_artifacts", Backend, h,
                      get_diagnostic_artifacts(0, h))
    /\ UNCHANGED << now, dbExists, tables, metadataColumn, snapshots,
                    process_samples, alerts, memFile, memHeader, memRows,
                    swapFile, swapHeader, swapRows, leaksFile, leakLines, prefs,
                    fs, pc, conn, sessions, report >>

\* The alert extractor over the database and over the legacy leak log; the
\* database may be one whose alerts table has no metadata column.
InitAlerts ==
    /\ now = NowT /\ dbExists \in BOOLEAN /\ tables = ALL_TABLES
    /\ metadataColumn \in BOOLEAN /\ (~dbExists => metadataColumn)
    /\ snapshots = << >> /\ process_samples = << >> /\ alerts = << >>
    /\ memFile = FALSE /\ memHeader = MEM_HEADER /\ memRows = << >>
    /\ swapFile = FALSE /\ swapHeader = SWAP_HEADER /\ swapRows = << >>
    /\ leaksFile = FALSE /\ leakLines = << >> /\ prefs = PrefsAbsent
    /\ fs = {} /\ out = NoCall /\ pc = Idle /\ conn = 0
    /\ sessions = << >> /\ report = << >>

NextAlerts ==
    \/ InsertAlerts
    \/ CreateLeakLog
    \/ AppendLeakLines
    \/ CallLeaks
    \/ CallHints
    \/ CallSystemAlerts
    \/ CallArtifacts

SpecAlerts == InitAlerts /\ [][NextAlerts]_vars

(* Diagnostic hints that name artifacts *)

\* Most hints the sampler has written with an artifact.
MaxHints == 3

\* The files the hints may name.
FILE_X == << "/", "tmp", "x" >>
FILE_Y == << "/", "root", "y" >>

\* Ways to write them: absolute, through "..", relative to the working
\* directory, through ".", from the home directory.
ArtifactPaths ==
    { << "/", "tmp", "x" >>, << "/", "tmp", "..", "tmp", "x" >>, << "x" >>,
      << "/", "tmp", ".", "x" >>, << "~", "y" >>, << "/", "root", "y" >> }

ArtifactHintDomain ==
    { Alert(NewT, "DIAGNOSTIC_HINT", mt[1], None, None,
            MetaJson("object", [Key(NoKeys, "artifact_path", p)
                                  EXCEPT !.title = mt[2]])) :
          p \in ArtifactPaths,
          mt \in { << 1, << >> >>, << 2, << >> >>, << 1, << 3 >> >> } }
    \cup { Alert(AncientT, "DIAGNOSTIC_HINT", 1, None, None,
                 MetaJson("object", Key(NoKeys, "artifact_path", FILE_X))),
           Alert(NewT, "DIAGNOSTIC_HINT", 1, None, None, MetaNull),
           Alert(NewT, "DIAGNOSTIC_HINT", 1, None, None, MetaGarbage),
           Alert(NewT, "DIAGNOSTIC_HINT", 1, None, None,
                 MetaJson("object", NoKeys)) }

InsertArtifactHint ==
    /\ out = NoCall /\ pc = Idle
    /\ dbExists /\ metadataColumn
    /\ Len(alerts) < MaxHints
    /\ \E a \in ArtifactHintDomain :
          alerts' = Append(alerts, [row |-> a, n |-> 1])
    /\ UNCHANGED << now, dbExists, tables, metadataColumn, snapshots,
                    process_samples, memFile, memHeader, memRows, swapFile,
                    swapHeader, swapRows, leaksFile, leakLines, prefs, fs, out,
                    pc, conn, sessions, report >>

\* The artifact verifier over a database, with any of the files present.
InitArtifacts ==
    /\ now = NowT /\ dbExists = TRUE /\ tables = ALL_TABLES
    /\ metadataColumn = TRUE
    /\ snapshots = << >> /\ process_samples = << >> /\ alerts = << >>
    /\ memFile = FALSE /\ memHeader = MEM_HEADER /\ memRows = << >>
    /\ swapFile = FALSE /\ swapHeader = SWAP_HEADER /\ swapRows = << >>
    /\ leaksFile = FALSE /\ leakLines = << >> /\ prefs = PrefsAbsent
    /\ fs \in SUBSET {FILE_X, FILE_Y}
    /\ out = NoCall /\ pc = Idle /\ conn = 0
    /\ sessions = << >> /\ report = << >>

NextArtifacts ==
    \/ InsertArtifactHint
    \/ CallArtifacts

SpecArtifacts == InitArtifacts /\ [][NextArtifacts]_vars

(* generate_report *)

ReportSnapshots ==
    << Snapshot(1, MidT, 200, 50), Snapshot(2, OldT, 200, 50),
       Snapshot(3, NewT, 1500, 10) >>

ReportSamples ==
    << [snapshot_id |-> 1, pid |-> 100, name |-> TxtCell(1), memory_mb |-> 50],
       [snapshot_id |-> 1, pid |-> 200, name |-> TxtCell(2), memory_mb |-> 80],
       [snapshot_id |-> 3, pid |-> 200, name |-> TxtCell(2), memory_mb |-> 90],
       [snapshot_id |-> 3, pid |-> 100, name |-> TxtCell(1), memory_mb |-> 80] >>

\* Alerts of every kind, the leaks more than the report shows.
ReportAlerts ==
    << [row |-> Alert(NewT, "MEMORY_LEAK", 1, NumCell(100), TxtCell(1), MetaNull),
        n |-> 1],
       [row |-> Alert(MidT, "RAPID_GROWTH", 2, None, None, MetaNull),
        n |-> LEAKS_SHOWN],
       [row |-> Alert(NewT, "DIAGNOSTIC_HINT", 3, None, None,
                      MetaJson("object",
                               Key(Key(NoKeys, "artifact_path", FILE_X),
                                   "artifact_exists", "false"))), n |-> 1],
       [row |-> Alert(NewT, "HIGH_SWAP", 4, None, None,
                      MetaJson("object", Key(NoKeys, "swap_used_mb", 1500))),
        n |-> 1] >>

\* The same with a hint whose metadata is a JSON list.
ReportAlertsListMetadata ==
    Append(ReportAlerts,
           [row |-> Alert(NewT, "DIAGNOSTIC_HINT", 5, None, None,
                          MetaJson("array", NoKeys)), n |-> 1])

ReportMemRows ==
    << << TsCell(MidT), NumCell(100), NumCell(50), TxtCell(1) >>,
       << TsCell(NewT), NumCell(100), NumCell(80), TxtCell(1) >> >>

\* The same with a last row cut after rss_mb, and with a row cut after the pid.
ReportMemRowsNoCommand ==
    Append(ReportMemRows, << TsCell(NewT), NumCell(100), NumCell(80) >>)
ReportMemRowsShort ==
    Append(ReportMemRows, << TsCell(NewT), NumCell(100) >>)

ReportSwapRows ==
    << << TsCell(MidT), NumCell(200), NumCell(2048), NumCell(50) >>,
       << TsCell(NewT), NumCell(400), NumCell(2048), NumCell(50) >> >>

\* A leak log in the order it was written, longer than the report shows.
ReportLeakLines ==
    << [row |-> [timestamp |-> AncientT, leak |-> TRUE], n |-> 1],
       [row |-> [timestamp |-> MidT, leak |-> TRUE], n |-> LEAKS_SHOWN],
       [row |-> [timestamp |-> NewT, leak |-> FALSE], n |-> 1] >>

PrefsDomain ==
    { PrefsAbsent,
      [PrefsAbsent EXCEPT !.k = "unparseable"],
      PrefsJson("object", << >>, << >>, << >>, << >>),
      PrefsJson("object", << [startMinutes |-> 1320, endMinutes |-> 1500] >>,
                << TRUE >>, << FALSE >>, << >>),
      PrefsJson("object", << >>, << FALSE >>, << >>, << TRUE >>),
      PrefsJson("array", << >>, << >>, << >>, << >>) }

\* Every combination of data availability: a database with any of its tables
\* absent, empty or filled, or no database and any of the flat files absent,
\* empty or filled; any preferences file.
InitReport ==
    /\ now = NowT /\ out = NoCall /\ pc = Idle /\ conn = 0
    /\ sessions = << >> /\ report = << >>
    /\ memHeader = MEM_HEADER /\ swapHeader = SWAP_HEADER
    /\ prefs \in PrefsDomain
    /\ fs \in {{}, {FILE_X}}
    /\ \/ /\ dbExists = TRUE
          /\ tables \in SUBSET ALL_TABLES
          /\ metadataColumn \in BOOLEAN
          /\ snapshots \in {<< >>, ReportSnapshots}
          /\ process_samples \in {<< >>, ReportSamples}
          /\ alerts \in {<< >>, ReportAlerts, ReportAlertsListMetadata}
          /\ "snapshots" \notin tables => snapshots = << >>
          /\ "process_samples" \notin tables => process_samples = << >>
          /\ "alerts" \notin tables => alerts = << >> /\ metadataColumn
          /\ memFile = FALSE /\ memRows = << >>
          /\ swapFile = FALSE /\ swapRows = << >>
          /\ leaksFile = FALSE /\ leakLines = << >>
       \/ /\ dbExists = FALSE
          /\ tables = ALL_TABLES /\ metadataColumn = TRUE
          /\ snapshots = << >> /\ process_samples = << >> /\ alerts = << >>
          /\ memFile \in BOOLEAN
          /\ memRows \in {<< >>, ReportMemRows, ReportMemRowsNoCommand,
                          ReportMemRowsShort}
          /\ ~memFile => memRows = << >>
          /\ swapFile \in BOOLEAN
          /\ swapRows \in {<< >>, ReportSwapRows}
          /\ ~swapFile => swapRows = << >>
          /\ leaksFile \in BOOLEAN
          /\ leakLines \in {<< >>, ReportLeakLines}
          /\ ~leaksFile => leakLines = << >>

Stages == {"trends", "swap", "leaks", "hints", "prefs", "system", "artifacts"}

\* generate_report(hours) up to the try statement: conn = db_connection()
GenerateReport ==
    /\ pc = Idle
    /\ \E h \in Hours : pc' = [at |-> "trends", hours |-> h, exc |-> ""]
    /\ sessions' = db_connection(sessions)
    /\ conn' = IF dbExists THEN Len(sessions) + 1 ELSE 0
    /\ report' = << >>
    /\ UNCHANGED << now, dbExists, tables, metadataColumn, snapshots,
                    process_samples, alerts, memFile, memHeader, memRows,
                    swapFile, swapHeader, swapRows, leaksFile, leakLines, prefs,
                    fs, out >>

\* The sampler creates the database file while the report is being built;
\* its tables may not be there yet.
DatabaseAppears ==
    /\ pc.at \in Stages
    /\ ~dbExists
    /\ dbExists' = TRUE
    /\ tables' \in {{}, ALL_TABLES}
    /\ UNCHANGED << now, metadataColumn, snapshots, process_samples, alerts,
                    memFile, memHeader, memRows, swapFile, swapHeader, swapRows,
                    leaksFile, leakLines, prefs, fs, out, pc, conn, sessions,
                    report >>

\* One stage of the try block: r is what the analyzer gave, renderError what
\* writing the section raises; an exception leaves the block for the finally
\* clause, else the section is in the buffer and the next stage follows.
StageEnds(r, renderError, section, next) ==
    IF r.status = "raised"
    THEN pc' = [pc EXCEPT !.at = "finally", !.exc = r.exc] /\ report' = report
    ELSE IF renderError # "ok"
    THEN pc' = [pc EXCEPT !.at = "finally", !.exc = renderError] /\ report' = report
    ELSE pc' = [pc EXCEPT !.at = next] /\ report' = Append(report, section)

StageTrends ==
    /\ pc.at = "trends"
    /\ LET r == analyze_memory_trends(pc.hours, conn)
       IN  StageEnds(r, TrendsRenderError(r.value), TrendsSection(r.value), "swap")
    /\ sessions' = AnalyzerSessions(sessions, conn, "analyze_memory_trends")
    /\ UNCHANGED << now, dbExists, tables, metadataColumn, snapshots,
                    process_samples, alerts, memFile, memHeader, memRows,
                    swapFile, swapHeader, swapRows, leaksFile, leakLines, prefs,
                    fs, out, conn >>

StageSwap ==
    /\ pc.at = "swap"
    /\ LET r == analyze_swap_usage(pc.hours, conn)
       IN  StageEnds(r, "ok", SwapSection(r.value), "leaks")
    /\ sessions' = AnalyzerSessions(sessions, conn, "analyze_swap_usage")
    /\ UNCHANGED << now, dbExists, tables, metadataColumn, snapshots,
                    process_samples, alerts, memFile, memHeader, memRows,
                    swapFile, swapHeader, swapRows, leaksFile, leakLines, prefs,
                    fs, out, conn >>

StageLeaks ==
    /\ pc.at = "leaks"
    /\ LET r == get_memory_leaks(conn, LEAK_HOURS)
       IN  StageEnds(r, "ok", LeaksSection(r.value), "hints")
    /\ sessions' = AnalyzerSessions(sessions, conn, "get_memory_leaks")
    /\ UNCHANGED << now, dbExists, tables, metadataColumn, snapshots,
                    process_samples, alerts, memFile, memHeader, memRows,
                    swapFile, swapHeader, swapRows, leaksFile, leakLines, prefs,
                    fs, out, conn >>

StageHints ==
    /\ pc.at = "hints"
    /\ LET r == get_diagnostic_hints(conn, HINT_HOURS)
       IN  StageEnds(r, "ok", HintsSection(r.value), "prefs")
    /\ sessions' = AnalyzerSessions(sessions, conn, "get_diagnostic_hints")
    /\ UNCHANGED << now, dbExists, tables, metadataColumn, snapshots,
                    process_samples, alerts, memFile, memHeader, memRows,
                    swapFile, swapHeader, swapRows, leaksFile, leakLines, prefs,
                    fs, out, conn >>

StagePrefs ==
    /\ pc.at = "prefs"
    /\ StageEnds(Returned(<< >>), PrefsError(prefs), PrefsSection(prefs), "system")
    /\ UNCHANGED << now, dbExists, tables, metadataColumn, snapshots,
                    process_samples, alerts, memFile, memHeader, memRows,
                    swapFile, swapHeader, swapRows, leaksFile, leakLines, prefs,
                    fs, out, conn, sessions >>

StageSystem ==
    /\ pc.at = "system"
    /\ LET r == get_system_alerts(conn, SYSTEM_HOURS)
       IN  StageEnds(r, "ok", SystemSection(r.value), "artifacts")
    /\ sessions' = AnalyzerSessions(sessions, conn, "get_system_alerts")
    /\ UNCHANGED << now, dbExists, tables, metadataColumn, snapshots,
                    process_samples, alerts, memFile, memHeader, memRows,
                    swapFile, swapHeader, swapRows, leaksFile, leakLines, prefs,
                    fs, out, conn >>

StageArtifacts ==
    /\ pc.at = "artifacts"
    /\ LET r == get_diagnostic_artifacts(conn, ARTIFACT_HOURS)
       IN  StageEnds(r, "ok", ArtifactsSection(r.value), "finally")
    /\ sessions' = AnalyzerSessions(sessions, conn, "get_diagnostic_artifacts")
    /\ UNCHANGED << now, dbExists, tables, metadataColumn, snapshots,
                    process_samples, alerts, memFile, memHeader, memRows,
                    swapFile, swapHeader, swapRows, leaksFile, leakLines, prefs,
                    fs, out, conn >>

\* The finally clause, then the return of the joined buffer or the exception.
Finally ==
    /\ pc.at = "finally"
    /\ sessions' = FinallyClose(sessions, conn)
    /\ pc' = [pc EXCEPT !.at = IF pc.exc = "" THEN "returned" ELSE "raised"]
    /\ UNCHANGED << now, dbExists, tables, metadataColumn, snapshots,
                    process_samples, alerts, memFile, memHeader, memRows,
                    swapFile, swapHeader, swapRows, leaksFile, leakLines, prefs,
                    fs, out, conn, report >>

NextReport ==
    \/ GenerateReport
    \/ DatabaseAppears
    \/ StageTrends
    \/ StageSwap
    \/ StageLeaks
    \/ StageHints
    \/ StagePrefs
    \/ StageSystem
    \/ StageArtifacts
    \/ Finally

SpecReport == InitReport /\ [][NextReport]_vars

----------------------------------------------------------------------------
(* What the claims speak of: well-formed rows and in-window records, stated *)
(* on the stores and not through the analyzers.                             *)

\* Every required column of the header is there, the row has a cell for it,
\* the timestamp parses and the number parses.
WellFormedMemRow(row) ==
    /\ \A c \in Range(MEM_HEADER) :
          HasCol(memHeader, c) /\ Col(memHeader, row, c) # None
    /\ Col(memHeader, row, "timestamp").k = "ts"
    /\ Col(memHeader, row, "rss_mb").k = "num"

WellFormedSwapRow(row) ==
    /\ \A c \in Range(SWAP_HEADER) :
          HasCol(swapHeader, c) /\ Col(swapHeader, row, c) # None
    /\ Col(swapHeader, row, "timestamp").k = "ts"
    /\ \A c \in {"swap_used_mb", "swap_total_mb", "free_pct"} :
          Col(swapHeader, row, c).k = "num"

\* The rows of memory_log.csv that carry a sample inside the window: a
\* timestamp that parses and is not before the cutoff, and a number for rss_mb.
MemSampleRows(hours) ==
    { i \in 1..Len(memRows) :
        /\ memFile
        /\ Len(memRows[i]) >= 3
        /\ memRows[i][1].k = "ts" /\ memRows[i][1].v >= now - hours
        /\ memRows[i][3].k = "num" }

\* The rows of process_samples whose snapshot is inside the window.
DbSampleRows(hours) ==
    { i \in 1..Len(process_samples) :
        \E j \in 1..Len(snapshots) :
            /\ snapshots[j].id = process_samples[i].snapshot_id
            /\ snapshots[j].timestamp >= now - hours }

\* The number of in-window samples of a process id, on the backend in use.
SampleCount(pid, hours) ==
    IF dbExists
    THEN Cardinality({ i \in DbSampleRows(hours) : process_samples[i].pid = pid })
    ELSE Cardinality({ i \in MemSampleRows(hours) : memRows[i][2] = pid })

AllPids ==
    IF dbExists THEN { process_samples[i].pid : i \in 1..Len(process_samples) }
    ELSE { memRows[i][2] : i \in { j \in 1..Len(memRows) : Len(memRows[j]) >= 2 } }

\* The swap_used values of the snapshots inside the window, by position.
SwapRowsInWindow(hours) ==
    IF dbExists
    THEN { i \in 1..Len(snapshots) : snapshots[i].timestamp >= now - hours }
    ELSE { i \in 1..Len(swapRows) :
             /\ swapFile
             /\ WellFormedSwapRow(swapRows[i])
             /\ swapRows[i][1].v >= now - hours }

SwapUsedAt(i) ==
    IF dbExists THEN snapshots[i].swap_used_mb ELSE swapRows[i][2].v

\* The sum of the in-window swap_used values.
RECURSIVE SwapUsedSum(_)
SwapUsedSum(W) ==
    IF W = {} THEN 0
    ELSE LET i == CHOOSE j \in W : TRUE IN SwapUsedAt(i) + SwapUsedSum(W \ {i})

----------------------------------------------------------------------------
(* Claims *)

\* C1 (as claimed): in the flat-file backend every row with an unparseable
\* timestamp, a non-numeric value or a missing required field, a row shorter
\* than the header included, is skipped on its own: the scan does not end in
\* an error, and its result is the result over the well-formed rows alone.
C1_MalformedRowsSkipped ==
    /\ (out.op = "analyze_memory_trends" /\ out.backend = "flat") =>
          /\ out.status = "ok"
          /\ out.value = ScanMemRows(memHeader,
                                     SelectSeq(memRows, WellFormedMemRow),
                                     now - out.hours, << >>).value
    /\ (out.op = "analyze_swap_usage" /\ out.backend = "flat") =>
          /\ out.status = "ok"
          /\ out.value = ScanSwapRows(swapHeader,
                                      SelectSeq(swapRows, WellFormedSwapRow),
                                      now - out.hours, << >>).value

\* C8 (as claimed): analyze_memory_trends returns a Growth Result for a
\* process id if and only if that process id has at least 2 samples inside the
\* window, at most one per process id, and its sample count is the number of
\* in-window samples of that process id.
C8_ResultIffTwoSamples ==
    out.op = "analyze_memory_trends" =>
        /\ \A pid \in AllPids :
              (\E i \in 1..Len(out.value) : out.value[i].pid = pid)
                  <=> SampleCount(pid, out.hours) >= 2
        /\ \A i, j \in 1..Len(out.value) :
              out.value[i].pid = out.value[j].pid => i = j
        /\ \A i \in 1..Len(out.value) :
              out.value[i].samples = SampleCount(out.value[i].pid, out.hours)

C10_SwapSummary ==
    out.op = "analyze_swap_usage" =>
        LET W == SwapRowsInWindow(out.hours)
            used == { SwapUsedAt(i) : i \in W }
        IN  /\ (out.status = "ok" /\ out.value = << >>) <=> W = {}
            /\ W # {} =>
                  /\ Len(out.value) = 1
                  /\ out.value[1].avg_swap_mb[1]
                        >= SetMin(used) * out.value[1].avg_swap_mb[2]
                  /\ out.value[1].avg_swap_mb[1]
                        <= SetMax(used) * out.value[1].avg_swap_mb[2]
                  /\ out.value[1].max_swap_mb = SetMax(used)
                  /\ out.value[1].estimated_ssd_writes_mb = SwapUsedSum(W)

\* The alerts of the given types inside the window, and the marked lines of
\* the leak log inside the window.
AlertsInWindow(types, hours) ==
    SelectSeq(Expand(alerts), LAMBDA a :
        a.type \in types /\ a.timestamp >= now - hours)

LeakLinesInWindow(hours) ==
    SelectSeq(Expand(leakLines), LAMBDA l :
        leaksFile /\ l.leak /\ l.timestamp >= now - hours)

\* The number of in-window records an extractor may draw on.
InWindowCount(op, hours) ==
    CASE op = "get_memory_leaks" ->
            IF dbExists THEN Len(AlertsInWindow(LEAK_TYPES, hours))
            ELSE Len(LeakLinesInWindow(hours))
      [] op = "get_diagnostic_hints" ->
            IF dbExists THEN Len(AlertsInWindow(HINT_TYPES, hours)) ELSE 0
      [] op = "get_system_alerts" ->
            IF dbExists THEN Len(AlertsInWindow(SYSTEM_TYPES, hours)) ELSE 0
      [] OTHER -> 0

CapOf(op) ==
    CASE op = "get_memory_leaks" -> LEAK_LIMIT
      [] op = "get_diagnostic_hints" -> HINT_LIMIT
      [] op = "get_system_alerts" -> SYSTEM_LIMIT
      [] OTHER -> ARTIFACT_LIMIT

ListOps == {"get_memory_leaks", "get_diagnostic_hints", "get_system_alerts"}

DescendingByTimestamp(lines) ==
    \A i \in 1..(Len(lines) - 1) : lines[i].timestamp >= lines[i + 1].timestamp

\* C2 (as claimed): on either backend the list get_memory_leaks returns has
\* at most 200 entries, the lists of get_diagnostic_hints and
\* get_system_alerts at most 50 each, and each list is in descending
\* timestamp order.
C2_CappedAndRecentFirst ==
    out.op \in ListOps =>
        /\ Len(out.value) <= CapOf(out.op)
        /\ DescendingByTimestamp(out.value)

\* C5 (as claimed): a read with a window of H hours returns only records
\* whose timestamp is >= now - H and omits no in-window record below its cap,
\* for every record kind and on either backend, the legacy leak log included.
C5_OnlyAndAllInWindow ==
    out.status = "ok" =>
        /\ out.op \in ListOps =>
              /\ \A i \in 1..Len(out.value) :
                    out.value[i].timestamp >= now - out.hours
              /\ Len(out.value) = Min2(CapOf(out.op),
                                       InWindowCount(out.op, out.hours))
        /\ out.op = "get_diagnostic_artifacts" =>
              LET hints == AlertsInWindow(HINT_TYPES, out.hours)
                  named == { i \in 1..Len(hints) :
                               ArtifactRowKind(hints[i]) = "entry" }
                  PathAt(i) == ExpandUser(PathOf(hints[i].metadata.m.artifact_path[1]))
              IN  /\ \A e \in Range(out.value) :
                        \E i \in named : PathAt(i) = e.path
                  /\ Len(hints) <= ARTIFACT_LIMIT =>
                        \A i \in named :
                            \E e \in Range(out.value) : e.path = PathAt(i)
        /\ out.op = "analyze_memory_trends" =>
              \A i \in 1..Len(out.value) :
                  out.value[i].samples = SampleCount(out.value[i].pid, out.hours)
        /\ out.op = "analyze_swap_usage" =>
              /\ out.value = << >> <=> SwapRowsInWindow(out.hours) = {}
              /\ out.value # << >> =>
                    out.value[1].samples = Cardinality(SwapRowsInWindow(out.hours))

\* C6 (as claimed): the list get_diagnostic_artifacts returns has no two
\* entries with the same (resolved absolute path, existence) pair, also when
\* two alerts name one file through different path strings, and it is sorted
\* ascending by title.
C6_NoDuplicateArtifacts ==
    out.op = "get_diagnostic_artifacts" =>
        /\ \A i, j \in 1..Len(out.value) :
              (/\ Resolve(out.value[i].path) = Resolve(out.value[j].path)
               /\ out.value[i].exists = out.value[j].exists) => i = j
        /\ \A i \in 1..(Len(out.value) - 1) :
              out.value[i].title <= out.value[i + 1].title

\* C7 (as claimed): whatever metadata the in-window hints carry (absent,
\* empty, no JSON, JSON that is no object, an object without the artifact
\* keys), get_diagnostic_hints does not raise and emits exactly one line per
\* alert up to the cap; a line has the artifact suffix or the "(missing)"
\* marker only when the key is present in a well-formed object.
C7_HintsTolerateMetadata ==
    out.op = "get_diagnostic_hints" =>
        LET rows == IF dbExists
                    THEN AlertQuery(HINT_TYPES, now - out.hours, HINT_LIMIT)
                    ELSE << >>
        IN  /\ out.status = "ok"
            /\ Len(out.value) = Len(rows)
            /\ \A i \in 1..Len(out.value) :
                  LET md == rows[i].metadata
                      object == metadataColumn /\ md.k = "json" /\ md.t = "object"
                  IN  /\ out.value[i].artifact # << >> =>
                            object /\ md.m.artifact_path # << >>
                      /\ out.value[i].missing =>
                            object /\ md.m.artifact_exists # << >>

\* C3 (as claimed): for every combination of data availability
\* generate_report returns without raising, and the text it returns has the
\* seven section headers in their fixed order, each followed by data lines or
\* by its placeholder line.
C3_ReportAlwaysComplete ==
    /\ pc.at # "raised"
    /\ pc.at = "returned" =>
          /\ Len(report) = Len(SECTION_TITLES)
          /\ \A i \in 1..Len(report) :
                /\ report[i].title = SECTION_TITLES[i]
                /\ report[i].placeholder <=> report[i].lines = << >>

\* C4: every database session opened during generate_report, the shared one
\* and any an analyzer opened for itself, is closed by the time
\* generate_report returns or raises; none is closed twice and none is used
\* after its close.
C4_SessionsClosed ==
    /\ \A i \in 1..Len(sessions) :
          sessions[i].closes <= 1 /\ ~sessions[i].misused
    /\ pc.at \in {"returned", "raised"} =>
          \A i \in 1..Len(sessions) : ~sessions[i].open /\ sessions[i].closes = 1

\* C4's case: generate_report raised in a stage after it had opened the
\* shared session and used it, and the session is closed.
C4_Witness ==
    /\ pc.at = "raised"
    /\ conn # 0
    /\ Len(report) >= 1
    /\ sessions[conn].closes = 1

\* The entries of a list of leak lines that are newer than timestamp t.
NewerThan(lines, t) == { i \in 1..Len(lines) : lines[i].timestamp > t }

\* shown are the most recent entries of returned: no entry of returned that
\* is newer than the oldest entry shown is left out.
MostRecentOf(shown, returned) ==
    LET oldest == SetMin({ shown[i].timestamp : i \in 1..Len(shown) })
    IN  Cardinality(NewerThan(shown, oldest))
            = Cardinality(NewerThan(returned, oldest))

\* C11 (as claimed): when get_memory_leaks returns more than 20 entries, the
\* "Potential Memory Leaks" section that generate_report writes lists the 20
\* most recent of them, on the structured backend and on the legacy leak
\* log, and its "Found N" line gives the full number returned.
C11_LeaksSectionMostRecent ==
    [][ (StageLeaks /\ pc'.at = "hints") =>
          LET leaks == get_memory_leaks(conn, LEAK_HOURS).value
              section == report'[Len(report')]
          IN  Len(leaks) > LEAKS_SHOWN =>
                /\ section.found = Len(leaks)
                /\ Len(section.lines) = LEAKS_SHOWN
                /\ MostRecentOf(section.lines, leaks) ]_vars

=============================================================================
